---- MODULE Spec2Model ----
(***************************************************************************)
(* A model of library_cli.py: a menu-driven session over one SQLite        *)
(* connection holding the tables Authors, Books and Borrows.               *)
(*                                                                         *)
(* Text is a sequence of one-character strings, an optional column value   *)
(* is a sequence of length at most one (<<>> is SQL NULL / Python None),   *)
(* and a table is a function from the primary keys present to the rows.    *)
(***************************************************************************)
EXTENDS Integers, Sequences, FiniteSets, TLC

VARIABLES
    pc,          \* position in main_menu: "start", "connected", "verified", "menu"
                 \* (at the prompt), "returned" (the handler is back), "closed"
    fileExists,  \* os.path.exists(DATABASE_FILE)
    tables,      \* names of the tables in sqlite_master
    fkOn,        \* PRAGMA foreign_keys of the connection
    db,          \* the rows as the connection sees them (uncommitted writes included)
    disk,        \* the committed rows
    today,       \* date.today(), as a day number
    scope,       \* what this session's user types, and whether the store may fail
    raised,      \* how many times the store has raised sqlite3.Error
    lastOp,      \* what the handler that just returned was given and reported
    before       \* the rows (db and disk) when that handler was entered

vars == <<pc, fileExists, tables, fkOn, db, disk, today, scope, raised, lastOp, before>>

\* ---------------------------------------------------------------- bounds

MaxAuthorID == 2
MaxBookID == 2
MaxBorrowID == 2
MaxDay == 2
MaxFaults == 1

\* ------------------------------------------------------------ basic values

None == <<>>
Some(v) == <<v>>
IsNone(o) == o = <<>>
Val(o) == o[1]

Max(S) == CHOOSE m \in S : \A x \in S : x <= m

\* date.today().year
CurrentYear == 2026

\* date.today().isoformat(): the year, month and day fields of the text
Isoformat(d) == <<CurrentYear, 11, d>>

\* ------------------------------------------------------------------- text

Space == " "

RECURSIVE LStrip(_)
LStrip(s) == IF s = <<>> THEN s
             ELSE IF Head(s) = Space THEN LStrip(Tail(s)) ELSE s

RECURSIVE RStrip(_)
RStrip(s) == IF s = <<>> THEN s
             ELSE IF s[Len(s)] = Space THEN RStrip(SubSeq(s, 1, Len(s) - 1)) ELSE s

\* the text as typed, with its spaces kept
Strip_nothing(s) == s

\* str.strip()
Strip(s) == RStrip(LStrip(s))

LowerChar(ch) ==
    CASE ch = "Y" -> "y"
      [] ch = "E" -> "e"
      [] ch = "S" -> "s"
      [] ch = "N" -> "n"
      [] ch = "O" -> "o"
      [] OTHER -> ch

\* str.lower()
Lower(s) == [i \in 1..Len(s) |-> LowerChar(s[i])]

Digits == <<"0", "1", "2", "3", "4", "5", "6", "7", "8", "9">>

IsDigit(ch) == \E i \in 1..10 : Digits[i] = ch
DigitVal(ch) == (CHOOSE i \in 1..10 : Digits[i] = ch) - 1

RECURSIVE DigitsVal(_)
DigitsVal(s) == IF s = <<>> THEN 0
                ELSE 10 * DigitsVal(SubSeq(s, 1, Len(s) - 1)) + DigitVal(s[Len(s)])

AllDigits(s) == s /= <<>> /\ \A i \in 1..Len(s) : IsDigit(s[i])

\* int(text): surrounding blanks and one sign are allowed; anything else
\* raises ValueError (ok = FALSE).
ParseInt(s) ==
    LET t == Strip(s)
        signed == t /= <<>> /\ Head(t) \in {"-", "+"}
        body == IF signed THEN Tail(t) ELSE t
    IN  IF AllDigits(body)
        THEN [ok |-> TRUE,
              val |-> IF signed /\ Head(t) = "-" THEN 0 - DigitsVal(body) ELSE DigitsVal(body)]
        ELSE [ok |-> FALSE, val |-> 0]

RECURSIVE NatText(_)
NatText(n) == IF n < 10 THEN <<Digits[n + 1]>>
              ELSE Append(NatText(n \div 10), Digits[(n % 10) + 1])

\* what the user types for the integer n
IntText(n) == IF n < 0 THEN <<"-">> \o NatText(0 - n) ELSE NatText(n)

\* the characters of the texts, in the order of their code points
Alphabet ==
    <<" ", "+", "-", "0", "1", "2", "3", "4", "5", "6", "7", "8", "9",
      "A", "B", "D", "E", "N", "O", "S", "T", "Y",
      "a", "e", "h", "n", "o", "r", "s", "t", "u", "x", "y">>

Code(ch) == CHOOSE i \in 1..Len(Alphabet) : Alphabet[i] = ch

\* s < t as SQLite's BINARY collation compares two texts
RECURSIVE TextLess(_, _)
TextLess(s, t) ==
    IF t = <<>> THEN FALSE
    ELSE IF s = <<>> THEN TRUE
    ELSE IF Head(s) = Head(t) THEN TextLess(Tail(s), Tail(t))
    ELSE Code(Head(s)) < Code(Head(t))

\* a < b for two ISO dates: the texts compare as their fields do
DateLess(a, b) ==
    \/ a[1] < b[1]
    \/ a[1] = b[1] /\ a[2] < b[2]
    \/ a[1] = b[1] /\ a[2] = b[2] /\ a[3] < b[3]

\* ORDER BY: the keys in S in the order that the pairs of precedes give
SortedBy(S, precedes) ==
    CHOOSE q \in [1..Cardinality(S) -> S] :
        \A i, j \in 1..Cardinality(S) : i < j => <<q[i], q[j]>> \in precedes

\* ------------------------------------------------------------------ store

RequiredTables == {"Authors", "Books", "Borrows"}

EmptyDb == [Authors |-> <<>>, Books |-> <<>>, Borrows |-> <<>>]

\* The ON DELETE actions of the schema in libraryDB.sqlite.
BooksAuthorOnDelete == "SET NULL"
BorrowsBookOnDelete == "CASCADE"

\* cursor.lastrowid after an INSERT: SQLite gives the largest rowid plus one
NewRowId(t) == IF DOMAIN t = {} THEN 1 ELSE Max(DOMAIN t) + 1

Without(t, ids) == [i \in DOMAIN t \ ids |-> t[i]]
With(t, id, row) == [i \in DOMAIN t \cup {id} |-> IF i = id THEN row ELSE t[i]]

BooksOfAuthor(d, aid) == {b \in DOMAIN d.Books : d.Books[b].AuthorID = Some(aid)}
BorrowsOfBook(d, bid) == {r \in DOMAIN d.Borrows : d.Borrows[r].BookID = bid}
BorrowsOfBooks(d, bids) == {r \in DOMAIN d.Borrows : d.Borrows[r].BookID \in bids}

\* INSERT INTO Authors (AuthorName, BirthYear) VALUES (?, ?)
InsertAuthor(d, name, birth) ==
    [d EXCEPT !.Authors = With(d.Authors, NewRowId(d.Authors),
                               [AuthorName |-> name, BirthYear |-> birth])]

\* UPDATE Authors SET AuthorName = ?, BirthYear = ? WHERE AuthorID = ?
UpdateAuthorRow(d, aid, name, birth) ==
    IF aid \in DOMAIN d.Authors
    THEN [d EXCEPT !.Authors[aid] = [AuthorName |-> name, BirthYear |-> birth]]
    ELSE d

\* DELETE FROM Books WHERE BookID in bids, with the foreign key of Borrows
DeleteBooksRows(d, fk, bids) ==
    LET hit == bids \cap DOMAIN d.Books
        refs == BorrowsOfBooks(d, hit)
    IN  IF ~fk \/ refs = {}
        THEN [ok |-> TRUE, db |-> [d EXCEPT !.Books = Without(d.Books, hit)]]
        ELSE IF BorrowsBookOnDelete = "CASCADE"
        THEN [ok |-> TRUE, db |-> [d EXCEPT !.Books = Without(d.Books, hit),
                                            !.Borrows = Without(d.Borrows, refs)]]
        ELSE [ok |-> FALSE, db |-> d]

\* DELETE FROM Books WHERE BookID = ?
DeleteBookRow(d, fk, bid) == DeleteBooksRows(d, fk, {bid})

\* the DELETE that removes no row
DeleteAuthorRow_nothing(d, fk, aid) == [ok |-> TRUE, db |-> d]

\* DELETE FROM Authors WHERE AuthorID = ?, with the foreign key of Books
DeleteAuthorRow(d, fk, aid) ==
    LET refs == BooksOfAuthor(d, aid)
        gone == [d EXCEPT !.Authors = Without(d.Authors, {aid})]
    IN  IF ~fk \/ refs = {} \/ aid \notin DOMAIN d.Authors
        THEN [ok |-> TRUE, db |-> gone]
        ELSE IF BooksAuthorOnDelete = "SET NULL"
        THEN [ok |-> TRUE,
              db |-> [gone EXCEPT !.Books =
                        [b \in DOMAIN d.Books |->
                            IF b \in refs THEN [d.Books[b] EXCEPT !.AuthorID = None]
                            ELSE d.Books[b]]]]
        ELSE IF BooksAuthorOnDelete = "CASCADE"
        THEN LET r == DeleteBooksRows(gone, fk, refs)
             IN  IF r.ok THEN r ELSE [ok |-> FALSE, db |-> d]
        ELSE [ok |-> FALSE, db |-> d]

\* INSERT INTO Books (Title, PublicationYear, AuthorID) VALUES (?, ?, ?):
\* with foreign keys on, an AuthorID that is not NULL must be an Authors row
InsertBook(d, fk, title, year, author) ==
    IF fk /\ ~IsNone(author) /\ Val(author) \notin DOMAIN d.Authors
    THEN [ok |-> FALSE, db |-> d]
    ELSE [ok |-> TRUE,
          db |-> [d EXCEPT !.Books = With(d.Books, NewRowId(d.Books),
                     [Title |-> title, PublicationYear |-> year, AuthorID |-> author])]]

\* the UPDATE without its WHERE clause
UpdateTitleRow_all(d, bid, title) ==
    [d EXCEPT !.Books = [b \in DOMAIN d.Books |-> [d.Books[b] EXCEPT !.Title = title]]]

\* UPDATE Books SET Title = ? WHERE BookID = ?
UpdateTitleRow(d, bid, title) ==
    IF bid \in DOMAIN d.Books THEN [d EXCEPT !.Books[bid].Title = title] ELSE d

\* the INSERT with the date written to ReturnDate as well
InsertBorrow_returned(d, fk, bid, name, day) ==
    IF fk /\ bid \notin DOMAIN d.Books
    THEN [ok |-> FALSE, db |-> d]
    ELSE [ok |-> TRUE,
          db |-> [d EXCEPT !.Borrows = With(d.Borrows, NewRowId(d.Borrows),
                     [BookID |-> bid, BorrowerName |-> name,
                      DateBorrowed |-> day, ReturnDate |-> Some(day)])]]

\* INSERT INTO Borrows (BookID, BorrowerName, DateBorrowed) VALUES (?, ?, ?)
InsertBorrow(d, fk, bid, name, day) ==
    IF fk /\ bid \notin DOMAIN d.Books
    THEN [ok |-> FALSE, db |-> d]
    ELSE [ok |-> TRUE,
          db |-> [d EXCEPT !.Borrows = With(d.Borrows, NewRowId(d.Borrows),
                     [BookID |-> bid, BorrowerName |-> name,
                      DateBorrowed |-> day, ReturnDate |-> None])]]

\* the UPDATE keyed by the book of the row instead of the row
UpdateReturnDate_byBook(d, rid, day) ==
    IF rid \in DOMAIN d.Borrows
    THEN [d EXCEPT !.Borrows =
            [r \in DOMAIN d.Borrows |->
                IF d.Borrows[r].BookID = d.Borrows[rid].BookID
                THEN [d.Borrows[r] EXCEPT !.ReturnDate = Some(day)]
                ELSE d.Borrows[r]]]
    ELSE d

\* UPDATE Borrows SET ReturnDate = ? WHERE BorrowID = ?
UpdateReturnDate(d, rid, day) ==
    IF rid \in DOMAIN d.Borrows THEN [d EXCEPT !.Borrows[rid].ReturnDate = Some(day)] ELSE d

\* the rows stay within the model's bounds
Bounded(d) ==
    /\ \A i \in DOMAIN d.Authors : i <= MaxAuthorID
    /\ \A i \in DOMAIN d.Books : i <= MaxBookID
    /\ \A i \in DOMAIN d.Borrows : i <= MaxBorrowID

\* ------------------------------------------------------------- outcomes

\* What an operation reports. outcome names the branch that ended it, exc the
\* exception caught (if any), id the key typed in, newId the lastrowid,
\* who the borrower named in a message, verified the tables read back after
\* the commit, more what only this operation has.
Report(op, ok, outcome, exc, id, newId, who, verified, more) ==
    [op |-> op, ok |-> ok, outcome |-> outcome, exc |-> exc, id |-> id,
     newId |-> newId, who |-> who, verified |-> verified, more |-> more]

NoMore == [none |-> TRUE]

\* an operation's end: the connection's rows, the committed rows, the report
End(d, k, rep) == [db |-> d, disk |-> k, rep |-> rep]

\* the store calls that may raise sqlite3.Error: 0 is none of them
Faults(n) ==
    IF scope \in {"faults", "lending faults"} /\ raised < MaxFaults THEN 0..n ELSE {0}

\* how many times the store raised in the operation that reports rep
Raised(rep) ==
    (IF rep.exc = "Error" THEN 1 ELSE 0)
    + (IF rep.op = "add_book" /\ rep.more.nested.exc = "Error" THEN 1 ELSE 0)

\* -------------------------------------------------------- author operations

\* the range with its upper end left out
ReasonableBirthYear_open(birth_year) == ~(birth_year < 0 \/ birth_year >= CurrentYear)

\* not (birth_year < 0 or birth_year > current_year)
ReasonableBirthYear(birth_year) == ~(birth_year < 0 \/ birth_year > CurrentYear)

\* name and year are what add_author read at its prompts (year NULL when it
\* read none, or no number)
AuthorReport(ok, outcome, exc, newId, verified, name, year) ==
    Report("add_author", ok, outcome, exc, 0, newId, <<>>, verified,
           [name |-> name, year |-> year])

\* add_author(conn): d are the connection's rows, k the committed rows,
\* nameIn and yearIn what is typed, f the store call that raises (1 the
\* INSERT, 2 the commit, 3 the read-back).
add_author(d, k, nameIn, yearIn, f) ==
    LET name == Strip(nameIn)
        y == Strip(yearIn)
        p == ParseInt(y)
        birth == IF y = <<>> THEN None ELSE Some(p.val)
        id == NewRowId(d.Authors)
        d1 == InsertAuthor(d, name, birth)
    IN  IF name = <<>>
        THEN End(d, k, AuthorReport(FALSE, "validation", "", 0, {}, name, None))
        ELSE IF y /= <<>> /\ ~p.ok
        THEN End(d, k, AuthorReport(FALSE, "invalid_number", "ValueError", 0, {}, name, None))
        ELSE IF y /= <<>> /\ ~ReasonableBirthYear(p.val)
        THEN End(d, k, AuthorReport(FALSE, "validation", "", 0, {}, name, birth))
        ELSE IF f = 1
        THEN End(d, k, AuthorReport(FALSE, "database_error", "Error", 0, {}, name, birth))
        ELSE IF f = 2
        THEN End(d1, k, AuthorReport(FALSE, "database_error", "Error", 0, {}, name, birth))
        ELSE IF f = 3
        THEN End(d1, d1, AuthorReport(FALSE, "database_error", "Error", id, {}, name, birth))
        ELSE IF id \in DOMAIN d1.Authors
        THEN End(d1, d1, AuthorReport(TRUE, "ok", "", id, {"Authors"}, name, birth))
        ELSE End(d1, d1, AuthorReport(FALSE, "verification", "", id, {"Authors"}, name, birth))

\* -------------------------------------------------------- book operations

\* not (pub_year < 0 or pub_year > date.today().year + 10)
ReasonablePubYear(pub_year) == ~(pub_year < 0 \/ pub_year > CurrentYear + 10)

\* title and year are what add_book read at its prompts (year NULL when it
\* read none, or no number), choice and author what it read about the
\* author, nested what the add_author it called reported
BookReport(ok, outcome, exc, newId, verified, choice, nested, author, title, year) ==
    Report("add_book", ok, outcome, exc, 0, newId, <<>>, verified,
           [choice |-> choice, nested |-> nested, author |-> author,
            title |-> title, year |-> year])

\* no add_author ran inside add_book
NoNested == AuthorReport(FALSE, "not_run", "", 0, {}, <<>>, None)

\* The end of add_book from the INSERT on: d, k as left by what ran before,
\* author the AuthorID to store, f the store call that raises (2 the INSERT,
\* 3 the commit, 4 the read-back).
add_book_insert(d, k, fk, title, year, author, choice, nested, f) ==
    LET id == NewRowId(d.Books)
        ins == InsertBook(d, fk, title, year, author)
    IN  IF f = 2
        THEN End(d, k, BookReport(FALSE, "database_error", "Error", 0, {}, choice, nested, author, title, year))
        ELSE IF ~ins.ok
        THEN End(d, k, BookReport(FALSE, "reference", "IntegrityError", 0, {}, choice, nested, author, title, year))
        ELSE IF f = 3
        THEN End(ins.db, k, BookReport(FALSE, "database_error", "Error", 0, {}, choice, nested, author, title, year))
        ELSE IF f = 4
        THEN End(ins.db, ins.db, BookReport(FALSE, "database_error", "Error", id, {}, choice, nested, author, title, year))
        ELSE IF id \in DOMAIN ins.db.Books
        THEN End(ins.db, ins.db, BookReport(TRUE, "ok", "", id, {"Books"}, choice, nested, author, title, year))
        ELSE End(ins.db, ins.db, BookReport(FALSE, "verification", "", id, {"Books"}, choice, nested, author, title, year))

\* SELECT AuthorID FROM Authors WHERE AuthorID = ?, and whether fetchone() gives a row
AuthorExists(d, aid) == aid \in DOMAIN d.Authors

\* add_book(conn): titleIn, yearIn, choiceIn and authorIn are what is typed at
\* its prompts, nameIn and birthIn at those of the add_author it may call;
\* f is the store call of add_book that raises (1 the SELECT of the author),
\* fa the one of the nested add_author.
add_book(d, k, fk, titleIn, yearIn, choiceIn, authorIn, nameIn, birthIn, f, fa) ==
    LET title == Strip(titleIn)
        y == Strip(yearIn)
        p == ParseInt(y)
        year == IF y = <<>> THEN None ELSE Some(p.val)
        choice == Strip(choiceIn)
        a == Strip(authorIn)
        pa == ParseInt(a)
        na == add_author(d, k, nameIn, birthIn, fa)
    IN  IF title = <<>>
        THEN End(d, k, BookReport(FALSE, "validation", "", 0, {}, <<>>, NoNested, None, title, None))
        ELSE IF y /= <<>> /\ ~p.ok
        THEN End(d, k, BookReport(FALSE, "invalid_number", "ValueError", 0, {}, <<>>, NoNested, None, title, None))
        ELSE IF y /= <<>> /\ ~ReasonablePubYear(p.val)
        THEN End(d, k, BookReport(FALSE, "validation", "", 0, {}, <<>>, NoNested, None, title, year))
        ELSE IF choice = <<"1">>
        THEN IF a = <<>>
             THEN add_book_insert(d, k, fk, title, year, None, choice, NoNested, f)
             ELSE IF ~pa.ok
             THEN End(d, k, BookReport(FALSE, "invalid_number", "ValueError", 0, {}, choice, NoNested, None, title, year))
             ELSE IF f = 1
             THEN End(d, k, BookReport(FALSE, "database_error", "Error", 0, {}, choice, NoNested, Some(pa.val), title, year))
             ELSE IF ~AuthorExists(d, pa.val)
             THEN End(d, k, BookReport(FALSE, "reference", "", 0, {}, choice, NoNested, Some(pa.val), title, year))
             ELSE add_book_insert(d, k, fk, title, year, Some(pa.val), choice, NoNested, f)
        ELSE IF choice = <<"2">>
        THEN IF na.rep.ok
             THEN IF a = <<>>
                  THEN add_book_insert(na.db, na.disk, fk, title, year, None, choice, na.rep, f)
                  ELSE IF ~pa.ok
                  THEN End(na.db, na.disk,
                           BookReport(FALSE, "invalid_number", "ValueError", 0, {}, choice, na.rep, None, title, year))
                  ELSE add_book_insert(na.db, na.disk, fk, title, year, Some(pa.val), choice, na.rep, f)
             ELSE add_book_insert(na.db, na.disk, fk, title, year, None, choice, na.rep, f)
        ELSE add_book_insert(d, k, fk, title, year, None, choice, NoNested, f)

\* update_book_title(conn): idIn and titleIn are what is typed (the title is
\* asked for only once the book is found); f is the store call that raises
\* (1 the SELECT, 2 the UPDATE, 3 the commit, 4 the read-back).
update_book_title(d, k, idIn, titleIn, f) ==
    LET p == ParseInt(idIn)
        id == p.val
        new_title == Strip(titleIn)
        d1 == UpdateTitleRow(d, id, new_title)
        asked == p.ok /\ f /= 1 /\ id \in DOMAIN d.Books
        Rep(ok, outcome, exc, verified) ==
            Report("update_book_title", ok, outcome, exc, id, 0, <<>>, verified,
                   [title |-> IF asked THEN Some(new_title) ELSE None])
    IN  IF ~p.ok
        THEN End(d, k, Rep(FALSE, "invalid_number", "ValueError", {}))
        ELSE IF f = 1
        THEN End(d, k, Rep(FALSE, "database_error", "Error", {}))
        ELSE IF id \notin DOMAIN d.Books
        THEN End(d, k, Rep(FALSE, "not_found", "", {}))
        ELSE IF new_title = <<>>
        THEN End(d, k, Rep(FALSE, "validation", "", {}))
        ELSE IF f = 2
        THEN End(d, k, Rep(FALSE, "database_error", "Error", {}))
        ELSE IF f = 3
        THEN End(d1, k, Rep(FALSE, "database_error", "Error", {}))
        ELSE IF f = 4
        THEN End(d1, d1, Rep(FALSE, "database_error", "Error", {}))
        ELSE IF id \in DOMAIN d1.Books /\ d1.Books[id].Title = new_title
        THEN End(d1, d1, Rep(TRUE, "ok", "", {"Books"}))
        ELSE End(d1, d1, Rep(FALSE, "verification", "", {"Books"}))

Yes == <<"y", "e", "s">>

\* the answer taken by its first letter
Confirmed_initial(confirmIn) == Strip(Lower(confirmIn)) \in {Yes, <<"y">>}

\* input(...).lower().strip() == 'yes'
Confirmed(confirmIn) == Strip(Lower(confirmIn)) = Yes

\* delete_book(conn): idIn and confirmIn are what is typed; f is the store
\* call that raises (1 the SELECT, 2 the DELETE, 3 the commit, 4 the read-back).
delete_book(d, k, fk, idIn, confirmIn, f) ==
    LET p == ParseInt(idIn)
        id == p.val
        del == DeleteBookRow(d, fk, id)
        Rep(ok, outcome, exc, verified) ==
            Report("delete_book", ok, outcome, exc, id, 0, <<>>, verified,
                   [confirmed |-> Confirmed(confirmIn),
                    answer |-> IF p.ok /\ f /= 1 /\ id \in DOMAIN d.Books
                               THEN Some(confirmIn) ELSE None])
    IN  IF ~p.ok
        THEN End(d, k, Rep(FALSE, "invalid_number", "ValueError", {}))
        ELSE IF f = 1
        THEN End(d, k, Rep(FALSE, "database_error", "Error", {}))
        ELSE IF id \notin DOMAIN d.Books
        THEN End(d, k, Rep(FALSE, "not_found", "", {}))
        ELSE IF ~Confirmed(confirmIn)
        THEN End(d, k, Rep(FALSE, "canceled", "", {}))
        ELSE IF f = 2
        THEN End(d, k, Rep(FALSE, "database_error", "Error", {}))
        ELSE IF ~del.ok
        THEN End(d, k, Rep(FALSE, "database_error", "IntegrityError", {}))
        ELSE IF f = 3
        THEN End(del.db, k, Rep(FALSE, "database_error", "Error", {}))
        ELSE IF f = 4
        THEN End(del.db, del.db, Rep(FALSE, "database_error", "Error", {}))
        ELSE IF id \notin DOMAIN del.db.Books
        THEN End(del.db, del.db, Rep(TRUE, "ok", "", {"Books"}))
        ELSE End(del.db, del.db, Rep(FALSE, "verification", "", {"Books"}))

\* new_name left as the empty text that was typed
KeptName_blank(author) == <<>>

\* new_name when nothing is typed: author[0]
KeptName(author) == author.AuthorName

\* new_birth_year when nothing is typed: author[1]
KeptBirthYear(author) == author.BirthYear

\* update_author(conn): idIn, nameIn and yearIn are what is typed; f is the
\* store call that raises (1 the SELECT, 2 the UPDATE, 3 the commit, 4 the
\* read-back).
update_author(d, k, idIn, nameIn, yearIn, f) ==
    LET p == ParseInt(idIn)
        id == p.val
        author == d.Authors[id]
        typed == Strip(nameIn)
        new_name == IF typed = <<>> THEN KeptName(author) ELSE typed
        y == Strip(yearIn)
        py == ParseInt(y)
        new_birth_year == IF y /= <<>> THEN Some(py.val) ELSE KeptBirthYear(author)
        d1 == UpdateAuthorRow(d, id, new_name, new_birth_year)
        Rep(ok, outcome, exc, verified) ==
            Report("update_author", ok, outcome, exc, id, 0, <<>>, verified,
                   [nameGiven |-> typed /= <<>>, yearGiven |-> y /= <<>>,
                    year |-> IF y /= <<>> /\ py.ok THEN Some(py.val) ELSE None])
    IN  IF ~p.ok
        THEN End(d, k, Rep(FALSE, "invalid_number", "ValueError", {}))
        ELSE IF f = 1
        THEN End(d, k, Rep(FALSE, "database_error", "Error", {}))
        ELSE IF id \notin DOMAIN d.Authors
        THEN End(d, k, Rep(FALSE, "not_found", "", {}))
        ELSE IF y /= <<>> /\ ~py.ok
        THEN End(d, k, Rep(FALSE, "invalid_number", "ValueError", {}))
        ELSE IF y /= <<>> /\ ~ReasonableBirthYear(py.val)
        THEN End(d, k, Rep(FALSE, "validation", "", {}))
        ELSE IF f = 2
        THEN End(d, k, Rep(FALSE, "database_error", "Error", {}))
        ELSE IF f = 3
        THEN End(d1, k, Rep(FALSE, "database_error", "Error", {}))
        ELSE IF f = 4
        THEN End(d1, d1, Rep(FALSE, "database_error", "Error", {}))
        ELSE IF id \in DOMAIN d1.Authors /\ d1.Authors[id].AuthorName = new_name
        THEN End(d1, d1, Rep(TRUE, "ok", "", {"Authors"}))
        ELSE End(d1, d1, Rep(FALSE, "verification", "", {"Authors"}))

\* the count of the author's books made a condition of the DELETE
Proceeds_unreferenced(confirmIn, book_count) == Confirmed(confirmIn) /\ book_count = 0

\* whether delete_author goes on to the DELETE: the answer alone decides, the
\* count of the author's books only words the warning
Proceeds(confirmIn, book_count) == Confirmed(confirmIn)

\* delete_author(conn): idIn and confirmIn are what is typed; f is the store
\* call that raises (1 the SELECT, 2 the COUNT, 3 the DELETE, 4 the commit,
\* 5 the read-back).
delete_author(d, k, fk, idIn, confirmIn, f) ==
    LET p == ParseInt(idIn)
        id == p.val
        book_count == Cardinality(BooksOfAuthor(d, id))
        del == DeleteAuthorRow(d, fk, id)
        Rep(ok, outcome, exc, verified) ==
            Report("delete_author", ok, outcome, exc, id, 0, <<>>, verified,
                   [book_count |-> book_count, confirmed |-> Confirmed(confirmIn),
                    answer |-> IF p.ok /\ f \notin {1, 2} /\ id \in DOMAIN d.Authors
                               THEN Some(confirmIn) ELSE None])
    IN  IF ~p.ok
        THEN End(d, k, Rep(FALSE, "invalid_number", "ValueError", {}))
        ELSE IF f = 1
        THEN End(d, k, Rep(FALSE, "database_error", "Error", {}))
        ELSE IF id \notin DOMAIN d.Authors
        THEN End(d, k, Rep(FALSE, "not_found", "", {}))
        ELSE IF f = 2
        THEN End(d, k, Rep(FALSE, "database_error", "Error", {}))
        ELSE IF ~Proceeds(confirmIn, book_count)
        THEN End(d, k, Rep(FALSE, "canceled", "", {}))
        ELSE IF f = 3
        THEN End(d, k, Rep(FALSE, "database_error", "Error", {}))
        ELSE IF ~del.ok
        THEN End(d, k, Rep(FALSE, "database_error", "IntegrityError", {}))
        ELSE IF f = 4
        THEN End(del.db, k, Rep(FALSE, "database_error", "Error", {}))
        ELSE IF f = 5
        THEN End(del.db, del.db, Rep(FALSE, "database_error", "Error", {}))
        ELSE IF id \notin DOMAIN del.db.Authors
        THEN End(del.db, del.db, Rep(TRUE, "ok", "", {"Authors"}))
        ELSE End(del.db, del.db, Rep(FALSE, "verification", "", {"Authors"}))

\* ------------------------------------------------------ borrow operations

\* the same query with the filter on ReturnDate the wrong way round
OpenBorrows_returned(d, bid) ==
    {r \in DOMAIN d.Borrows : d.Borrows[r].BookID = bid /\ ~IsNone(d.Borrows[r].ReturnDate)}

\* the same query with the filter on ReturnDate left out
OpenBorrows_everLent(d, bid) == {r \in DOMAIN d.Borrows : d.Borrows[r].BookID = bid}

\* SELECT ... FROM Borrows WHERE BookID = ? AND ReturnDate IS NULL
OpenBorrows(d, bid) ==
    {r \in DOMAIN d.Borrows : d.Borrows[r].BookID = bid /\ IsNone(d.Borrows[r].ReturnDate)}

\* fetchone() of that query: the row SQLite's scan meets first
FirstOf(S) == CHOOSE r \in S : \A x \in S : r <= x

\* the name read without the filter on ReturnDate: any row of the book may be met first
CurrentBorrower_anyRow(d, bid) ==
    d.Borrows[CHOOSE r \in BorrowsOfBook(d, bid) : \A x \in BorrowsOfBook(d, bid) : r <= x].BorrowerName

\* current_borrower[0]: the BorrowerName of the open row of the book
CurrentBorrower(d, bid) == d.Borrows[FirstOf(OpenBorrows(d, bid))].BorrowerName

\* borrow_book(conn): idIn and nameIn are what is typed, day is date.today();
\* f is the store call that raises (1 the SELECT of the book, 2 the SELECT of
\* the open borrow, 3 the INSERT, 4 the commit, 5 the read-back).
borrow_book(d, k, fk, day, idIn, nameIn, f) ==
    LET p == ParseInt(idIn)
        book_id == p.val
        borrower_name == Strip(nameIn)
        open == OpenBorrows(d, book_id)
        borrow_id == NewRowId(d.Borrows)
        ins == InsertBorrow(d, fk, book_id, borrower_name, Isoformat(day))
        Rep(ok, outcome, exc, newId, who, verified) ==
            Report("borrow_book", ok, outcome, exc, book_id, newId, who, verified,
                   [borrower |-> borrower_name])
    IN  IF ~p.ok
        THEN End(d, k, Rep(FALSE, "invalid_number", "ValueError", 0, <<>>, {}))
        ELSE IF borrower_name = <<>>
        THEN End(d, k, Rep(FALSE, "validation", "", 0, <<>>, {}))
        ELSE IF f = 1
        THEN End(d, k, Rep(FALSE, "database_error", "Error", 0, <<>>, {}))
        ELSE IF book_id \notin DOMAIN d.Books
        THEN End(d, k, Rep(FALSE, "not_found", "", 0, <<>>, {}))
        ELSE IF f = 2
        THEN End(d, k, Rep(FALSE, "database_error", "Error", 0, <<>>, {}))
        ELSE IF open /= {}
        THEN End(d, k, Rep(FALSE, "conflict", "", 0, CurrentBorrower(d, book_id), {}))
        ELSE IF f = 3
        THEN End(d, k, Rep(FALSE, "database_error", "Error", 0, <<>>, {}))
        ELSE IF ~ins.ok
        THEN End(d, k, Rep(FALSE, "database_error", "IntegrityError", 0, <<>>, {}))
        ELSE IF f = 4
        THEN End(ins.db, k, Rep(FALSE, "database_error", "Error", 0, <<>>, {}))
        ELSE IF f = 5
        THEN End(ins.db, ins.db, Rep(FALSE, "database_error", "Error", borrow_id, <<>>, {}))
        ELSE IF borrow_id \in DOMAIN ins.db.Borrows
        THEN End(ins.db, ins.db, Rep(TRUE, "ok", "", borrow_id, <<>>, {"Borrows"}))
        ELSE End(ins.db, ins.db, Rep(FALSE, "verification", "", borrow_id, <<>>, {"Borrows"}))

\* the same query without "AND br.ReturnDate IS NULL"
OutstandingBorrow_anyRow(d, rid) ==
    /\ rid \in DOMAIN d.Borrows
    /\ d.Borrows[rid].BookID \in DOMAIN d.Books

\* SELECT ... FROM Borrows br JOIN Books b ON br.BookID = b.BookID
\* WHERE br.BorrowID = ? AND br.ReturnDate IS NULL
OutstandingBorrow(d, rid) ==
    /\ rid \in DOMAIN d.Borrows
    /\ d.Borrows[rid].BookID \in DOMAIN d.Books
    /\ IsNone(d.Borrows[rid].ReturnDate)

\* return_book(conn): idIn is what is typed, day is date.today(); f is the
\* store call that raises (1 the SELECT, 2 the UPDATE, 3 the commit, 4 the
\* read-back).
return_book(d, k, day, idIn, f) ==
    LET p == ParseInt(idIn)
        borrow_id == p.val
        d1 == UpdateReturnDate(d, borrow_id, Isoformat(day))
        Rep(ok, outcome, exc, who, verified) ==
            Report("return_book", ok, outcome, exc, borrow_id, 0, who, verified, NoMore)
    IN  IF ~p.ok
        THEN End(d, k, Rep(FALSE, "invalid_number", "ValueError", <<>>, {}))
        ELSE IF f = 1
        THEN End(d, k, Rep(FALSE, "database_error", "Error", <<>>, {}))
        ELSE IF ~OutstandingBorrow(d, borrow_id)
        THEN End(d, k, Rep(FALSE, "not_found", "", <<>>, {}))
        ELSE IF f = 2
        THEN End(d, k, Rep(FALSE, "database_error", "Error", <<>>, {}))
        ELSE IF f = 3
        THEN End(d1, k, Rep(FALSE, "database_error", "Error", <<>>, {}))
        ELSE IF f = 4
        THEN End(d1, d1, Rep(FALSE, "database_error", "Error", <<>>, {}))
        ELSE IF borrow_id \in DOMAIN d1.Borrows /\ ~IsNone(d1.Borrows[borrow_id].ReturnDate)
        THEN End(d1, d1, Rep(TRUE, "ok", "", d.Borrows[borrow_id].BorrowerName, {"Borrows"}))
        ELSE End(d1, d1, Rep(FALSE, "verification", "", <<>>, {"Borrows"}))

\* the same SELECT with sql_filter left empty whatever only_outstanding is
BorrowedRows_unfiltered(d, only_outstanding) ==
    {r \in DOMAIN d.Borrows : d.Borrows[r].BookID \in DOMAIN d.Books}

\* view_borrowed_books(conn, only_outstanding): the BorrowIDs of the rows its
\* SELECT ... FROM Borrows br JOIN Books b ON br.BookID = b.BookID gives
BorrowedRows(d, only_outstanding) ==
    {r \in DOMAIN d.Borrows :
        /\ d.Borrows[r].BookID \in DOMAIN d.Books
        /\ only_outstanding => IsNone(d.Borrows[r].ReturnDate)}

\* the rows fetchall() gives view_borrowed_books, in their order: ORDER BY
\* br.DateBorrowed DESC, rows of one date in the order of the scan of Borrows
view_borrowed_books(d, only_outstanding) ==
    LET Precedes(r1, r2) ==
            \/ DateLess(d.Borrows[r2].DateBorrowed, d.Borrows[r1].DateBorrowed)
            \/ d.Borrows[r1].DateBorrowed = d.Borrows[r2].DateBorrowed /\ r1 < r2
        order == SortedBy(BorrowedRows(d, only_outstanding),
                         {pair \in (BorrowedRows(d, only_outstanding)) \X (BorrowedRows(d, only_outstanding)) : Precedes(pair[1], pair[2])})
    IN  [i \in 1..Len(order) |->
            [BorrowID |-> order[i],
             Title |-> d.Books[d.Borrows[order[i]].BookID].Title,
             BorrowerName |-> d.Borrows[order[i]].BorrowerName,
             DateBorrowed |-> d.Borrows[order[i]].DateBorrowed,
             ReturnDate |-> d.Borrows[order[i]].ReturnDate]]

\* the rows fetchall() gives view_authors: SELECT * FROM Authors ORDER BY
\* AuthorName, rows of one name in the order of the scan
view_authors(d) ==
    LET Precedes(a1, a2) ==
            \/ TextLess(d.Authors[a1].AuthorName, d.Authors[a2].AuthorName)
            \/ d.Authors[a1].AuthorName = d.Authors[a2].AuthorName /\ a1 < a2
        order == SortedBy(DOMAIN d.Authors,
                         {pair \in (DOMAIN d.Authors) \X (DOMAIN d.Authors) : Precedes(pair[1], pair[2])})
    IN  [i \in 1..Len(order) |->
            [AuthorID |-> order[i],
             AuthorName |-> d.Authors[order[i]].AuthorName,
             BirthYear |-> d.Authors[order[i]].BirthYear]]

\* the rows fetchall() gives view_all_books: Books LEFT JOIN Authors ORDER BY
\* b.Title, rows of one title in the order of the scan
view_all_books(d) ==
    LET Precedes(b1, b2) ==
            \/ TextLess(d.Books[b1].Title, d.Books[b2].Title)
            \/ d.Books[b1].Title = d.Books[b2].Title /\ b1 < b2
        order == SortedBy(DOMAIN d.Books,
                         {pair \in (DOMAIN d.Books) \X (DOMAIN d.Books) : Precedes(pair[1], pair[2])})
        AuthorName(b) ==
            IF ~IsNone(d.Books[b].AuthorID) /\ Val(d.Books[b].AuthorID) \in DOMAIN d.Authors
            THEN Some(d.Authors[Val(d.Books[b].AuthorID)].AuthorName)
            ELSE None
    IN  [i \in 1..Len(order) |->
            [BookID |-> order[i],
             Title |-> d.Books[order[i]].Title,
             PublicationYear |-> d.Books[order[i]].PublicationYear,
             AuthorName |-> AuthorName(order[i])]]

\* ------------------------------------------------------- connection test

TestAuthor == <<"T", "e", "s", "t", " ", "A", "u", "t", "h", "o", "r">>

\* test_database_connection(conn): f is the store call that raises (1 the
\* INSERT, 2 the SELECT, 3 the DELETE, 4 the commit).
test_database_connection(d, k, fk, f) ==
    LET test_id == NewRowId(d.Authors)
        d1 == InsertAuthor(d, TestAuthor, Some(2000))
        del == DeleteAuthorRow(d1, fk, test_id)
        Rep(ok, outcome, exc) ==
            Report("test_database_connection", ok, outcome, exc, 0, test_id, <<>>, {}, NoMore)
    IN  IF f = 1
        THEN End(d, k, Rep(FALSE, "database_error", "Error"))
        ELSE IF f = 2
        THEN End(d1, k, Rep(FALSE, "database_error", "Error"))
        ELSE IF ~(test_id \in DOMAIN d1.Authors /\ d1.Authors[test_id].AuthorName = TestAuthor)
        THEN End(d1, k, Rep(FALSE, "test_failed", ""))
        ELSE IF f = 3
        THEN End(d1, k, Rep(FALSE, "database_error", "Error"))
        ELSE IF ~del.ok
        THEN End(d1, k, Rep(FALSE, "database_error", "IntegrityError"))
        ELSE IF f = 4
        THEN End(del.db, k, Rep(FALSE, "database_error", "Error"))
        ELSE End(del.db, del.db, Rep(TRUE, "ok", ""))

\* ----------------------------------------------------------------- inputs

\* The sessions checked, by what the user types. "authors": two author names
\* and birth years, one title, no borrower name that is accepted. "titles":
\* one author name, two titles, a publication year, no borrower either.
\* "lending": one title, no author, two borrowers and loans on different days.
\* "mixed": one author name, one title, one borrower, one day. "years": one
\* author name, one title, the years at and around the ends of the ranges.
Scopes == {"authors", "titles", "lending", "mixed", "years"}

\* The sessions in which any call of the store may raise sqlite3.Error.
\* "faults": one author name, one title, no borrower. "lending faults": one
\* title, no author named, one borrower, loans on different days.
FaultScopes == {"faults", "lending faults"}

\* what may be typed at the prompts
AuthorNameInputs ==
    CASE scope = "authors" -> {<<" ">>, <<"A">>, <<" ", "B", " ">>}
      [] scope \in {"lending", "lending faults"} -> {<<>>}
      [] OTHER -> {<<>>, <<"A", " ">>}
BirthYearInputs ==
    CASE scope = "authors" -> {<<>>, IntText(1970), IntText(CurrentYear + 1), <<"x">>}
      [] scope = "mixed" -> {<<>>, <<"-", "1">>}
      [] scope = "years" -> {<<"0">>, IntText(CurrentYear), IntText(CurrentYear + 1), <<"-", "1">>}
      [] OTHER -> {<<>>}
TitleInputs ==
    CASE scope = "titles" -> {<<" ">>, <<"D">>, <<"E", " ">>}
      [] OTHER -> {<<>>, <<" ", "D">>}
PubYearInputs ==
    CASE scope = "years" -> {<<"0">>, IntText(CurrentYear + 10), IntText(CurrentYear + 11), <<"-", "1">>}
      [] scope = "titles" -> {<<>>, IntText(1965), <<"x">>}
      [] OTHER -> {<<>>, IntText(CurrentYear + 11), <<"x">>}
BorrowerInputs ==
    CASE scope = "lending" -> {<<>>, <<"A">>, <<" ", "B">>}
      [] scope = "mixed" -> {<<>>, <<"A">>}
      [] scope = "lending faults" -> {<<"A">>}
      [] OTHER -> {<<" ">>}
ChoiceInputs == {<<"1">>, <<" ", "2">>, <<"3">>, <<"9">>}
ConfirmInputs == {<<"y", "e", "s">>, <<" ", "Y", "E", "S">>, <<"n", "o">>, <<"y">>}
IdInputs(max) ==
    {IntText(i) : i \in 1..max} \cup {<<" ">> \o IntText(max + 1), <<"x">>}
AuthorIdInputs == IdInputs(MaxAuthorID) \cup {<<>>}
LastDay == IF scope \in {"lending", "lending faults"} THEN MaxDay ELSE 1

Typed(S) == {t \in S : Strip(t) /= <<>>}

\* what may be typed at the prompts of add_book and of the add_author it
\* calls: an answer is varied only where add_book reads it
AddBookInputs ==
    (TitleInputs \X PubYearInputs \X {<<"3">>, <<"9">>} \X {<<>>} \X {<<>>} \X {<<>>})
    \cup (Typed(TitleInputs) \X (IF scope = "titles" THEN PubYearInputs ELSE {<<>>})
            \X {<<"1">>} \X AuthorIdInputs \X {<<>>} \X {<<>>})
    \cup (Typed(TitleInputs) \X {<<>>} \X {<<" ", "2">>} \X AuthorIdInputs
            \X AuthorNameInputs \X {<<>>, <<"x">>})

\* ---------------------------------------------------------------- actions

NoOp == Report("none", TRUE, "ok", "", 0, 0, <<>>, {}, NoMore)

\* the rows as they are
Now == [db |-> db, disk |-> disk]

Init ==
    /\ pc = "start"
    /\ fileExists \in BOOLEAN
    /\ tables \in SUBSET RequiredTables
    /\ fkOn = FALSE
    /\ db = EmptyDb
    /\ disk = EmptyDb
    /\ today = 1
    /\ scope \in Scopes
    /\ raised = 0
    /\ lastOp = NoOp
    /\ before = Now

\* the same start, of a session in which the store may raise
InitFaults ==
    /\ pc = "start"
    /\ fileExists \in BOOLEAN
    /\ tables \in SUBSET RequiredTables
    /\ fkOn = FALSE
    /\ db = EmptyDb
    /\ disk = EmptyDb
    /\ today = 1
    /\ scope \in FaultScopes
    /\ raised = 0
    /\ lastOp = NoOp
    /\ before = Now

\* the connection without the PRAGMA: SQLite leaves foreign keys off
PragmaForeignKeys_missing == FALSE

\* conn.execute("PRAGMA foreign_keys = ON")
PragmaForeignKeys == TRUE

\* create_connection(), and main_menu's return when it gives None; f is the
\* store call that raises (1 the connect, the PRAGMA or the SELECT)
CreateConnection ==
    /\ pc = "start"
    /\ \E f \in Faults(1) :
         IF ~fileExists
         THEN /\ pc' = "closed"
              /\ fkOn' = fkOn
              /\ lastOp' = Report("create_connection", FALSE, "no_file", "", 0, 0, <<>>, {}, NoMore)
         ELSE IF f = 1
         THEN /\ pc' = "closed"
              /\ fkOn' = fkOn
              /\ lastOp' = Report("create_connection", FALSE, "database_error", "Error",
                                  0, 0, <<>>, {}, NoMore)
         ELSE /\ pc' = "connected"
              /\ fkOn' = PragmaForeignKeys
              /\ lastOp' = Report("create_connection", TRUE, "ok", "", 0, 0, <<>>, {}, NoMore)
    /\ raised' = raised + Raised(lastOp')
    /\ UNCHANGED <<fileExists, tables, db, disk, today, scope, before>>

\* the check that finds every table present
MissingTables_none(existing_tables) == {}

\* [table for table in required_tables if table not in existing_tables]
MissingTables(existing_tables) == RequiredTables \ existing_tables

\* verify_database_structure(conn), and main_menu's close when it fails; f is
\* the store call that raises (1 the SELECT of the names, 2 a SELECT COUNT)
VerifyDatabaseStructure ==
    /\ pc = "connected"
    /\ \E f \in Faults(2) :
         LET missing_tables == MissingTables(tables)
         IN  IF f = 1
             THEN /\ pc' = "closed"
                  /\ lastOp' = Report("verify_database_structure", FALSE, "database_error",
                                      "Error", 0, 0, <<>>, {}, [missing |-> {}])
             ELSE IF missing_tables /= {}
             THEN /\ pc' = "closed"
                  /\ lastOp' = Report("verify_database_structure", FALSE, "missing_tables", "",
                                      0, 0, <<>>, {}, [missing |-> missing_tables])
             ELSE IF f = 2
             THEN /\ pc' = "closed"
                  /\ lastOp' = Report("verify_database_structure", FALSE, "database_error",
                                      "Error", 0, 0, <<>>, {}, [missing |-> {}])
             ELSE /\ pc' = "verified"
                  /\ lastOp' = Report("verify_database_structure", TRUE, "ok", "",
                                      0, 0, <<>>, {}, [missing |-> missing_tables])
    /\ raised' = raised + Raised(lastOp')
    /\ UNCHANGED <<fileExists, tables, fkOn, db, disk, today, scope, before>>

\* the start-up test_database_connection(conn), and main_menu's close when it fails
StartupTest ==
    /\ pc = "verified"
    /\ \E f \in Faults(4) :
         LET r == test_database_connection(db, disk, fkOn, f)
         IN  /\ pc' = IF r.rep.ok THEN "menu" ELSE "closed"
             /\ db' = IF r.rep.ok THEN r.db ELSE r.disk
             /\ disk' = r.disk
             /\ lastOp' = r.rep
    /\ before' = Now
    /\ raised' = raised + Raised(lastOp')
    /\ UNCHANGED <<fileExists, tables, fkOn, today, scope>>

\* a handler that reported failure ending the loop
Finish_failStops(r) ==
    /\ Bounded(r.db)
    /\ raised + Raised(r.rep) <= MaxFaults
    /\ pc' = IF r.rep.ok THEN "returned" ELSE "closed"
    /\ db' = r.db
    /\ disk' = r.disk
    /\ lastOp' = r.rep
    /\ before' = Now
    /\ raised' = raised + Raised(lastOp')
    /\ UNCHANGED <<fileExists, tables, fkOn, today, scope>>

\* a menu operation ends with r and returns to main_menu, which looks at
\* nothing the handler returned
Finish(r) ==
    /\ Bounded(r.db)
    /\ raised + Raised(r.rep) <= MaxFaults
    /\ pc' = "returned"
    /\ db' = r.db
    /\ disk' = r.disk
    /\ lastOp' = r.rep
    /\ before' = Now
    /\ raised' = raised + Raised(lastOp')
    /\ UNCHANGED <<fileExists, tables, fkOn, today, scope>>

\* a listing that deletes the rows it has shown
Listing_consumes(op, rows) ==
    /\ pc' = "returned"
    /\ lastOp' = Report(op, TRUE, "ok", "", 0, 0, <<>>, {}, [rows |-> rows])
    /\ before' = Now
    /\ db' = EmptyDb
    /\ UNCHANGED <<fileExists, tables, fkOn, disk, today, scope, raised>>

\* a listing shows the rows its SELECT gave, or the store's error (f = 1);
\* nothing is written
Listing(op, rows) ==
    /\ pc' = "returned"
    /\ \E f \in Faults(1) :
         lastOp' = IF f = 1
                   THEN Report(op, FALSE, "database_error", "Error", 0, 0, <<>>, {},
                               [rows |-> <<>>])
                   ELSE Report(op, TRUE, "ok", "", 0, 0, <<>>, {}, [rows |-> rows])
    /\ before' = Now
    /\ raised' = raised + Raised(lastOp')
    /\ UNCHANGED <<fileExists, tables, fkOn, db, disk, today, scope>>

\* choice '1'
ViewAllBooks == pc = "menu" /\ Listing("view_all_books", view_all_books(db))

\* choice '2'
AddBook ==
    /\ pc = "menu"
    /\ \E in \in AddBookInputs, f \in Faults(4), fa \in Faults(3) :
         Finish(add_book(db, disk, fkOn, in[1], in[2], in[3], in[4], in[5], in[6], f, fa))

\* choice '3'
UpdateBookTitle ==
    /\ pc = "menu"
    /\ \E idIn \in IdInputs(MaxBookID), titleIn \in TitleInputs, f \in Faults(4) :
         Finish(update_book_title(db, disk, idIn, titleIn, f))

\* choice '4'
DeleteBook ==
    /\ pc = "menu"
    /\ \E idIn \in IdInputs(MaxBookID), confirmIn \in ConfirmInputs, f \in Faults(4) :
         Finish(delete_book(db, disk, fkOn, idIn, confirmIn, f))

\* choice '5'
ViewAuthors == pc = "menu" /\ Listing("view_authors", view_authors(db))

\* choice '6'
AddAuthor ==
    /\ pc = "menu"
    /\ \E nameIn \in AuthorNameInputs, yearIn \in BirthYearInputs, f \in Faults(3) :
         Finish(add_author(db, disk, nameIn, yearIn, f))

\* choice '7'
UpdateAuthor ==
    /\ pc = "menu"
    /\ \E idIn \in IdInputs(MaxAuthorID), nameIn \in AuthorNameInputs,
          yearIn \in BirthYearInputs, f \in Faults(4) :
         Finish(update_author(db, disk, idIn, nameIn, yearIn, f))

\* choice '8'
DeleteAuthor ==
    /\ pc = "menu"
    /\ \E idIn \in IdInputs(MaxAuthorID), confirmIn \in ConfirmInputs, f \in Faults(5) :
         Finish(delete_author(db, disk, fkOn, idIn, confirmIn, f))

\* choice '9'
BorrowBook ==
    /\ pc = "menu"
    /\ \E idIn \in IdInputs(MaxBookID), nameIn \in BorrowerInputs, f \in Faults(5) :
         Finish(borrow_book(db, disk, fkOn, today, idIn, nameIn, f))

\* choice '10'
ReturnBook ==
    /\ pc = "menu"
    /\ \E idIn \in IdInputs(MaxBorrowID), f \in Faults(4) :
         Finish(return_book(db, disk, today, idIn, f))

\* choice '11'
ViewOutstanding == pc = "menu" /\ Listing("view_outstanding", view_borrowed_books(db, TRUE))

\* choice '12'
ViewHistory == pc = "menu" /\ Listing("view_history", view_borrowed_books(db, FALSE))

\* choice '13'
TestDatabaseConnection ==
    /\ pc = "menu"
    /\ \E f \in Faults(4) : Finish(test_database_connection(db, disk, fkOn, f))

\* choice '14': the loop breaks and conn.close() drops what is not committed
Exit ==
    /\ pc = "menu"
    /\ pc' = "closed"
    /\ db' = disk
    /\ lastOp' = Report("exit", TRUE, "ok", "", 0, 0, <<>>, {}, NoMore)
    /\ before' = Now
    /\ UNCHANGED <<fileExists, tables, fkOn, disk, today, scope, raised>>

\* any other choice: a message, and the loop goes on
InvalidChoice ==
    /\ pc = "menu"
    /\ pc' = "returned"
    /\ lastOp' = Report("invalid_choice", FALSE, "invalid_choice", "", 0, 0, <<>>, {}, NoMore)
    /\ before' = Now
    /\ UNCHANGED <<fileExists, tables, fkOn, db, disk, today, scope, raised>>

\* what main_menu's "except KeyboardInterrupt" leaves of a handler
Interrupted(d, k) ==
    End(d, k, Report("interrupted", FALSE, "interrupted", "KeyboardInterrupt",
                     0, 0, <<>>, {}, NoMore))

\* Ctrl-C at a prompt of a handler: every handler prompts before it writes,
\* but for add_book, whose prompt for the AuthorID comes after add_author
KeyboardInterrupt ==
    /\ pc = "menu"
    /\ \/ Finish(Interrupted(db, disk))
       \/ \E nameIn \in AuthorNameInputs :
            LET na == add_author(db, disk, nameIn, <<>>, 0)
            IN  na.rep.ok /\ Finish(Interrupted(na.db, na.disk))

\* while True: main_menu drops what the handler returned and prompts again
Loop ==
    /\ pc = "returned"
    /\ pc' = "menu"
    /\ lastOp' = NoOp
    /\ before' = Now
    /\ UNCHANGED <<fileExists, tables, fkOn, db, disk, today, scope, raised>>

\* midnight passes while the menu waits: date.today() moves on
Tick ==
    /\ pc = "menu"
    /\ today < LastDay
    /\ today' = today + 1
    /\ UNCHANGED <<pc, fileExists, tables, fkOn, db, disk, scope, raised, lastOp, before>>

Next ==
    \/ CreateConnection
    \/ VerifyDatabaseStructure
    \/ StartupTest
    \/ ViewAllBooks
    \/ AddBook
    \/ UpdateBookTitle
    \/ DeleteBook
    \/ ViewAuthors
    \/ AddAuthor
    \/ UpdateAuthor
    \/ DeleteAuthor
    \/ BorrowBook
    \/ ReturnBook
    \/ ViewOutstanding
    \/ ViewHistory
    \/ TestDatabaseConnection
    \/ Exit
    \/ InvalidChoice
    \/ KeyboardInterrupt
    \/ Loop
    \/ Tick

Spec == Init /\ [][Next]_vars

\* the sessions in which the store may raise
SpecFaults == InitFaults /\ [][Next]_vars

\* ----------------------------------------------------------------- claims

\* the handler op has just returned to main_menu
Acted(op) == pc = "returned" /\ lastOp.op = op

Returned(row) == ~IsNone(row.ReturnDate)

OneOpenBorrowPerBook(d) ==
    \A r1, r2 \in DOMAIN d.Borrows :
        (/\ d.Borrows[r1].BookID = d.Borrows[r2].BookID
         /\ ~Returned(d.Borrows[r1])
         /\ ~Returned(d.Borrows[r2])) => r1 = r2

\* C1: from the empty store (no book has two open Borrow rows), after any
\* sequence of menu operations every BookID has at most one Borrow row with
\* ReturnDate = NULL, in the connection's rows and in the committed rows.
C1_AtMostOneOpenBorrow == OneOpenBorrowPerBook(db) /\ OneOpenBorrowPerBook(disk)

\* borrow_book has succeeded on a book that has an earlier, returned Borrow row
C1_Witness ==
    /\ Acted("borrow_book")
    /\ lastOp.ok
    /\ Cardinality(BorrowsOfBook(db, lastOp.id)) = 2

\* borrow_book was given a number and the book had an open Borrow row
BorrowOfBorrowedBook ==
    /\ Acted("borrow_book")
    /\ lastOp.outcome /= "invalid_number"
    /\ OpenBorrows(before.db, lastOp.id) /= {}

\* it failed naming the borrower of the open row and wrote no Borrow row
ConflictReported ==
    /\ ~lastOp.ok
    /\ \A r \in OpenBorrows(before.db, lastOp.id) : lastOp.who = before.db.Borrows[r].BorrowerName
    /\ db.Borrows = before.db.Borrows
    /\ disk.Borrows = before.disk.Borrows

\* C2 as stated: borrow_book on a book that already has an open Borrow row
\* fails, the failure names the BorrowerName of that row, and no Borrow row is
\* inserted or changed.
C2_Original == BorrowOfBorrowedBook => ConflictReported

\* C2, amended: the same when the borrower name typed is not empty; with an
\* empty name borrow_book fails too and writes nothing, but names nobody.
C2_ConflictNamesBorrower ==
    BorrowOfBorrowedBook =>
        /\ ~lastOp.ok
        /\ db.Borrows = before.db.Borrows
        /\ disk.Borrows = before.disk.Borrows
        /\ IF lastOp.more.borrower /= <<>>
           THEN lastOp.outcome = "conflict" /\ ConflictReported
           ELSE lastOp.outcome = "validation" /\ lastOp.who = <<>>

\* B asks for a book that A holds, after an earlier loan of it was returned
C2_Witness ==
    /\ BorrowOfBorrowedBook
    /\ lastOp.outcome = "conflict"
    /\ lastOp.who /= lastOp.more.borrower
    /\ Cardinality(BorrowsOfBook(db, lastOp.id)) = 2

\* C3: return_book with a BorrowID that does not exist, or that exists and has
\* a ReturnDate, fails with the not-found outcome and leaves every Borrow row
\* as it was.
C3_ReturnNotOutstanding ==
    (/\ Acted("return_book")
     /\ lastOp.outcome /= "invalid_number"
     /\ \/ lastOp.id \notin DOMAIN before.db.Borrows
        \/ Returned(before.db.Borrows[lastOp.id]))
    => /\ ~lastOp.ok
       /\ lastOp.outcome = "not_found"
       /\ db.Borrows = before.db.Borrows
       /\ disk.Borrows = before.disk.Borrows

\* return_book was given the id of a row that was returned on an earlier day
C3_Witness ==
    /\ Acted("return_book")
    /\ lastOp.id \in DOMAIN before.db.Borrows
    /\ Returned(before.db.Borrows[lastOp.id])
    /\ Val(before.db.Borrows[lastOp.id].ReturnDate) /= Isoformat(today)
    /\ lastOp.outcome = "not_found"

\* C4: in every step, a Borrow row whose ReturnDate is set keeps it, unless the
\* step is a delete_book of its book, which removes the row; and a ReturnDate
\* becomes set only by a return_book of that row.
C4_ReturnDateFinal ==
    [][\A r \in DOMAIN db.Borrows :
         /\ Returned(db.Borrows[r]) =>
              IF r \in DOMAIN db'.Borrows
              THEN db'.Borrows[r] = db.Borrows[r]
              ELSE /\ lastOp'.op = "delete_book"
                   /\ lastOp'.id = db.Borrows[r].BookID
                   /\ db.Borrows[r].BookID \notin DOMAIN db'.Books
         /\ (/\ ~Returned(db.Borrows[r])
             /\ r \in DOMAIN db'.Borrows
             /\ Returned(db'.Borrows[r]))
            => lastOp'.op = "return_book" /\ lastOp'.id = r]_vars

\* a second loan of a book is returned on a later day than its first loan was
C4_Witness ==
    /\ Acted("return_book")
    /\ lastOp.ok
    /\ \E r \in DOMAIN db.Borrows :
         /\ r /= lastOp.id
         /\ db.Borrows[r].BookID = db.Borrows[lastOp.id].BookID
         /\ Returned(db.Borrows[r])
         /\ db.Borrows[r].ReturnDate /= db.Borrows[lastOp.id].ReturnDate

\* no Book row bid, no Borrow row of it, and no line for it in either listing
BookGone(d, bid) ==
    /\ bid \notin DOMAIN d.Books
    /\ BorrowsOfBook(d, bid) = {}
    /\ \A only_outstanding \in BOOLEAN :
         \A r \in BorrowedRows(d, only_outstanding) : d.Borrows[r].BookID /= bid

\* C5 as stated: whenever delete_book reports success the store holds no Book
\* row with that id and no Borrow row referencing it, the listings have no
\* entry for the book, and delete_book has checked both before reporting.
C5_Original ==
    (Acted("delete_book") /\ lastOp.ok) =>
        /\ BookGone(db, lastOp.id)
        /\ BookGone(disk, lastOp.id)
        /\ {"Books", "Borrows"} \subseteq lastOp.verified

\* C5, amended: the same state after a success, but delete_book has read back
\* the Books table only; that the Borrow rows are gone is the store's cascade.
C5_DeleteBookCascades ==
    (Acted("delete_book") /\ lastOp.ok) =>
        /\ BookGone(db, lastOp.id)
        /\ BookGone(disk, lastOp.id)
        /\ lastOp.verified = {"Books"}

\* delete_book has succeeded on a book with an open and a returned Borrow row
C5_Witness ==
    /\ Acted("delete_book")
    /\ lastOp.ok
    /\ \E r1, r2 \in BorrowsOfBook(before.db, lastOp.id) :
         Returned(before.db.Borrows[r1]) /\ ~Returned(before.db.Borrows[r2])

ReferencesHold(d) ==
    /\ \A r \in DOMAIN d.Borrows : d.Borrows[r].BookID \in DOMAIN d.Books
    /\ \A b \in DOMAIN d.Books :
         IsNone(d.Books[b].AuthorID) \/ Val(d.Books[b].AuthorID) \in DOMAIN d.Authors

\* C6: in every reachable state every Borrow.BookID is the id of a Book row and
\* every Book.AuthorID that is not NULL is the id of an Author row.
C6_ReferentialIntegrity == ReferencesHold(db) /\ ReferencesHold(disk)

\* delete_author has removed an author that a book referenced, while another
\* book still references another author
C6_Witness ==
    /\ Acted("delete_author")
    /\ lastOp.ok
    /\ lastOp.more.book_count > 0
    /\ \E b \in DOMAIN db.Books : ~IsNone(db.Books[b].AuthorID)

\* C7: add_book given an AuthorID that matches no Author row fails with the
\* reference error and persists no Book row, whether the id was typed for an
\* existing author (choice 1) or after add_author created one (choice 2).
C7_UnknownAuthorRejected ==
    (/\ Acted("add_book")
     /\ ~IsNone(lastOp.more.author)
     /\ Val(lastOp.more.author) \notin DOMAIN db.Authors)
    => /\ ~lastOp.ok
       /\ lastOp.outcome = "reference"
       /\ db.Books = before.db.Books
       /\ disk.Books = before.disk.Books

\* choice 2: add_author created an author and the id typed after it matches none
C7_Witness ==
    /\ Acted("add_book")
    /\ lastOp.more.nested.ok
    /\ ~IsNone(lastOp.more.author)
    /\ Val(lastOp.more.author) \notin DOMAIN db.Authors
    /\ lastOp.outcome = "reference"

\* C8: delete_author on an existing AuthorID, once confirmed, removes that
\* Author row whether or not Book rows reference it: the count of those books
\* is reported and blocks nothing, and no Book row is deleted.
C8_DeleteAuthorNotBlocked ==
    (/\ Acted("delete_author")
     /\ lastOp.id \in DOMAIN before.db.Authors
     /\ lastOp.more.confirmed)
    => /\ lastOp.ok
       /\ lastOp.more.book_count = Cardinality(BooksOfAuthor(before.db, lastOp.id))
       /\ lastOp.id \notin DOMAIN db.Authors
       /\ lastOp.id \notin DOMAIN disk.Authors
       /\ db.Authors = Without(before.db.Authors, {lastOp.id})
       /\ DOMAIN db.Books = DOMAIN before.db.Books
       /\ DOMAIN disk.Books = DOMAIN before.db.Books
       /\ \A b \in DOMAIN db.Books : db.Books[b].Title = before.db.Books[b].Title

\* delete_author has removed an author whom every one of two books referenced
C8_Witness ==
    /\ Acted("delete_author")
    /\ lastOp.ok
    /\ lastOp.more.book_count = 2
    /\ Cardinality(DOMAIN db.Books) = 2

Mutating ==
    {"add_book", "add_author", "update_book_title", "update_author",
     "delete_book", "delete_author", "borrow_book", "return_book"}

\* C9 as stated: whenever a mutating operation reports failure, the persisted
\* Author, Book and Borrow rows are those from before the operation.
C9_FailureLeavesNothing ==
    (pc = "returned" /\ lastOp.op \in Mutating /\ ~lastOp.ok) => disk = before.disk

\* C10: a successful update_author keeps the name when none is typed and the
\* birth year when none is typed, keeps the AuthorID, and changes no other
\* Author row and no Book or Borrow row.
C10_PartialUpdate ==
    (Acted("update_author") /\ lastOp.ok) =>
        /\ lastOp.id \in DOMAIN before.db.Authors
        /\ DOMAIN db.Authors = DOMAIN before.db.Authors
        /\ ~lastOp.more.nameGiven =>
             db.Authors[lastOp.id].AuthorName = before.db.Authors[lastOp.id].AuthorName
        /\ ~lastOp.more.yearGiven =>
             db.Authors[lastOp.id].BirthYear = before.db.Authors[lastOp.id].BirthYear
        /\ \A a \in DOMAIN db.Authors \ {lastOp.id} : db.Authors[a] = before.db.Authors[a]
        /\ db.Books = before.db.Books
        /\ db.Borrows = before.db.Borrows
        /\ disk = db

\* only a birth year was typed: it replaced the old one and the name stayed
C10_Witness ==
    /\ Acted("update_author")
    /\ lastOp.ok
    /\ ~lastOp.more.nameGiven
    /\ lastOp.more.yearGiven
    /\ db.Authors[lastOp.id].BirthYear /= before.db.Authors[lastOp.id].BirthYear
    /\ db.Authors[lastOp.id].AuthorName = before.db.Authors[lastOp.id].AuthorName

\* borrower names to try: those of the session and two more
SomeBorrowers == Typed(BorrowerInputs \cup {<<"A">>, <<" ", "B">>})

\* C11: a book can always go round Available -> Borrowed -> Available: right
\* after a borrow_book that succeeded, a borrow_book of the same book under
\* any name fails; right after a return_book that succeeded, a borrow_book of
\* that row's book under any name that is not empty succeeds; and a
\* borrow_book of an existing book without an open Borrow row, under a name
\* that is not empty, succeeds.
C11_LifecycleCycles ==
    /\ (Acted("borrow_book") /\ lastOp.ok) =>
         \A nameIn \in SomeBorrowers \cup {<<>>} :
            ~borrow_book(db, disk, fkOn, today, IntText(lastOp.id), nameIn, 0).rep.ok
    /\ (Acted("return_book") /\ lastOp.ok) =>
         \A nameIn \in SomeBorrowers :
            borrow_book(db, disk, fkOn, today,
                        IntText(before.db.Borrows[lastOp.id].BookID), nameIn, 0).rep.ok
    /\ (/\ Acted("borrow_book")
        /\ lastOp.outcome /= "invalid_number"
        /\ lastOp.id \in DOMAIN before.db.Books
        /\ OpenBorrows(before.db, lastOp.id) = {}
        /\ lastOp.more.borrower /= <<>>) => lastOp.ok

\* a book that A borrowed and returned has been borrowed by B on a later day
C11_Witness ==
    /\ Acted("borrow_book")
    /\ lastOp.ok
    /\ \E r \in BorrowsOfBook(before.db, lastOp.id) :
         /\ Returned(before.db.Borrows[r])
         /\ before.db.Borrows[r].BorrowerName /= lastOp.more.borrower
         /\ before.db.Borrows[r].DateBorrowed /= Isoformat(today)

\* borrow_book was given a number that is the id of no Book row
BorrowOfAbsentBook ==
    /\ Acted("borrow_book")
    /\ lastOp.outcome /= "invalid_number"
    /\ lastOp.id \notin DOMAIN before.db.Books

\* a borrow_book that succeeded inserted one Borrow row, of that book, under
\* the name given (trimmed), dated today and not returned, and nothing else
\* changed
BorrowInsertedOneRow ==
    (Acted("borrow_book") /\ lastOp.ok) =>
        /\ lastOp.newId \notin DOMAIN before.db.Borrows
        /\ db.Borrows = With(before.db.Borrows, lastOp.newId,
                             [BookID |-> lastOp.id,
                              BorrowerName |-> lastOp.more.borrower,
                              DateBorrowed |-> Isoformat(today),
                              ReturnDate |-> None])
        /\ db.Authors = before.db.Authors
        /\ db.Books = before.db.Books
        /\ disk = db

\* C12 as stated: borrow_book of a BookID that does not exist fails with the
\* not-found outcome and inserts nothing; a borrow_book that succeeds inserts
\* exactly one Borrow row and changes no other row.
C12_Original ==
    /\ BorrowOfAbsentBook =>
         ~lastOp.ok /\ lastOp.outcome = "not_found" /\ db = before.db /\ disk = before.disk
    /\ BorrowInsertedOneRow

\* C12, amended: the not-found outcome when the borrower name typed is not
\* empty; with an empty name borrow_book fails before it looks for the book,
\* with the validation outcome, and inserts nothing either.
C12_BorrowInsertsOneRow ==
    /\ BorrowOfAbsentBook =>
         /\ ~lastOp.ok
         /\ db = before.db
         /\ disk = before.disk
         /\ lastOp.outcome = IF lastOp.more.borrower /= <<>> THEN "not_found" ELSE "validation"
    /\ BorrowInsertedOneRow

\* a second book is borrowed while the first is out
C12_Witness ==
    /\ Acted("borrow_book")
    /\ lastOp.ok
    /\ \E r \in DOMAIN before.db.Borrows :
         before.db.Borrows[r].BookID /= lastOp.id /\ ~Returned(before.db.Borrows[r])

\* the listing q shows exactly the Borrow rows in ids, each once and as it is
\* stored, the later DateBorrowed first
ShowsBorrows(q, d, ids) ==
    /\ Len(q) = Cardinality(ids)
    /\ {q[i].BorrowID : i \in 1..Len(q)} = ids
    /\ \A i \in 1..Len(q) :
         /\ q[i].BorrowerName = d.Borrows[q[i].BorrowID].BorrowerName
         /\ q[i].DateBorrowed = d.Borrows[q[i].BorrowID].DateBorrowed
         /\ q[i].ReturnDate = d.Borrows[q[i].BorrowID].ReturnDate
    /\ \A i, j \in 1..Len(q) : i < j => ~DateLess(q[i].DateBorrowed, q[j].DateBorrowed)

\* C13: in every reachable state the outstanding listing shows exactly the
\* Borrow rows whose ReturnDate is NULL and the history listing shows every
\* Borrow row, none left out, both by DateBorrowed descending; and these are
\* the rows the two menu choices report.
C13_ListingsComplete ==
    /\ ShowsBorrows(view_borrowed_books(db, TRUE), db,
                    {r \in DOMAIN db.Borrows : IsNone(db.Borrows[r].ReturnDate)})
    /\ ShowsBorrows(view_borrowed_books(db, FALSE), db, DOMAIN db.Borrows)
    /\ (Acted("view_outstanding") /\ lastOp.ok) =>
         lastOp.more.rows = view_borrowed_books(db, TRUE)
    /\ (Acted("view_history") /\ lastOp.ok) =>
         lastOp.more.rows = view_borrowed_books(db, FALSE)

\* the history shows a loan of a later day, still out, above a returned one
C13_Witness ==
    /\ Acted("view_history")
    /\ Len(lastOp.more.rows) = 2
    /\ DateLess(lastOp.more.rows[2].DateBorrowed, lastOp.more.rows[1].DateBorrowed)
    /\ IsNone(lastOp.more.rows[1].ReturnDate)
    /\ ~IsNone(lastOp.more.rows[2].ReturnDate)

Listings == {"view_all_books", "view_authors", "view_outstanding", "view_history"}

\* the rows the listing op gives on the rows d
RowsOf(op, d) ==
    CASE op = "view_all_books" -> view_all_books(d)
      [] op = "view_authors" -> view_authors(d)
      [] op = "view_outstanding" -> view_borrowed_books(d, TRUE)
      [] op = "view_history" -> view_borrowed_books(d, FALSE)

YearRejected ==
    /\ ~lastOp.ok
    /\ lastOp.outcome = "validation"
    /\ db = before.db
    /\ disk = before.disk

\* C15: add_author and update_author accept a birth year typed exactly when
\* it is in 0..CurrentYear, add_book accepts a publication year typed exactly
\* when it is in 0..CurrentYear + 10; an accepted year is the one stored, and
\* on a rejection no row is inserted or changed.
C15_YearRanges ==
    /\ (Acted("add_author") /\ ~IsNone(lastOp.more.year)) =>
         IF Val(lastOp.more.year) \in 0..CurrentYear
         THEN lastOp.ok /\ db.Authors[lastOp.newId].BirthYear = lastOp.more.year
         ELSE YearRejected
    /\ (/\ Acted("update_author")
        /\ lastOp.id \in DOMAIN before.db.Authors
        /\ ~IsNone(lastOp.more.year)) =>
         IF Val(lastOp.more.year) \in 0..CurrentYear
         THEN lastOp.ok /\ db.Authors[lastOp.id].BirthYear = lastOp.more.year
         ELSE YearRejected
    /\ (Acted("add_book") /\ ~IsNone(lastOp.more.year)) =>
         IF Val(lastOp.more.year) \in 0..(CurrentYear + 10)
         THEN /\ lastOp.outcome /= "validation"
              /\ lastOp.more.choice \notin {<<"1">>, <<"2">>} => lastOp.ok
              /\ lastOp.ok => db.Books[lastOp.newId].PublicationYear = lastOp.more.year
         ELSE YearRejected

\* a book of the last year allowed is added while one author is stored as
\* born in the year 0 and another in the current year
C15_Witness ==
    /\ Acted("add_book")
    /\ lastOp.ok
    /\ lastOp.more.year = Some(CurrentYear + 10)
    /\ \E a1, a2 \in DOMAIN db.Authors :
         db.Authors[a1].BirthYear = Some(0) /\ db.Authors[a2].BirthYear = Some(CurrentYear)

C17_NothingUncommitted ==
    pc = "returned" => db = disk

\* C18: update_book_title reports not-found when the BookID typed is absent
\* and a validation error when the new title typed is empty, and changes
\* nothing in either case; when it succeeds, the row keeps its BookID,
\* PublicationYear and AuthorID and takes the title typed, and every other
\* Book row, every Borrow row and every Author row is as before.
C18_UpdateTitleOnly ==
    (pc = "returned" /\ lastOp.op = "update_book_title") =>
        LET id == lastOp.id
            old == before.db.Books
        IN  /\ (lastOp.outcome /= "invalid_number" /\ lastOp.exc = "" /\ id \notin DOMAIN old) =>
                 lastOp.outcome = "not_found" /\ ~lastOp.ok /\ Now = before
            /\ lastOp.more.title = Some(<<>>) =>
                 lastOp.outcome = "validation" /\ ~lastOp.ok /\ Now = before
            /\ lastOp.ok =>
                 /\ id \in DOMAIN old
                 /\ ~IsNone(lastOp.more.title) /\ Val(lastOp.more.title) /= <<>>
                 /\ DOMAIN db.Books = DOMAIN old
                 /\ db.Books[id].Title = Val(lastOp.more.title)
                 /\ db.Books[id].PublicationYear = old[id].PublicationYear
                 /\ db.Books[id].AuthorID = old[id].AuthorID
                 /\ \A b \in DOMAIN old \ {id} : db.Books[b] = old[b]
                 /\ db.Borrows = before.db.Borrows
                 /\ db.Authors = before.db.Authors
                 /\ disk = db

\* a title changed on a book that has a year and an author, next to a book
\* with another title
C18_Witness ==
    /\ pc = "returned" /\ lastOp.op = "update_book_title" /\ lastOp.ok
    /\ db.Books[lastOp.id].Title /= before.db.Books[lastOp.id].Title
    /\ ~IsNone(db.Books[lastOp.id].PublicationYear)
    /\ ~IsNone(db.Books[lastOp.id].AuthorID)
    /\ \E b \in DOMAIN db.Books : db.Books[b].Title /= db.Books[lastOp.id].Title

\* a text with a character that is not a space
HasText(s) == \E i \in 1..Len(s) : s[i] /= Space

\* every AuthorName, Title and BorrowerName among the rows d has text
TextFieldsFilled(d) ==
    /\ \A a \in DOMAIN d.Authors : HasText(d.Authors[a].AuthorName)
    /\ \A b \in DOMAIN d.Books : HasText(d.Books[b].Title)
    /\ \A r \in DOMAIN d.Borrows : HasText(d.Borrows[r].BorrowerName)

\* C19: in every state every Author has an AuthorName, every Book a Title and
\* every Borrow a BorrowerName that is not empty and not only spaces, in the
\* connection and among the committed rows; add_author, add_book,
\* update_book_title and borrow_book given an empty or whitespace-only text
\* fail without writing (the add_author that add_book runs writes no Author),
\* and an update_author given no name leaves the name as it was.
C19_TextNotEmpty ==
    /\ TextFieldsFilled(db)
    /\ TextFieldsFilled(disk)
    /\ pc = "returned" =>
         /\ (lastOp.op = "add_author" /\ lastOp.more.name = <<>>) =>
              ~lastOp.ok /\ Now = before
         /\ (lastOp.op = "add_book" /\ lastOp.more.title = <<>>) =>
              ~lastOp.ok /\ Now = before
         /\ (lastOp.op = "add_book" /\ lastOp.more.nested.outcome /= "not_run"
              /\ lastOp.more.nested.more.name = <<>>) =>
              /\ ~lastOp.more.nested.ok
              /\ db.Authors = before.db.Authors /\ disk.Authors = before.disk.Authors
         /\ (lastOp.op = "update_book_title" /\ lastOp.more.title = Some(<<>>)) =>
              ~lastOp.ok /\ Now = before
         /\ (lastOp.op = "borrow_book" /\ lastOp.more.borrower = <<>>) =>
              ~lastOp.ok /\ Now = before
         /\ (lastOp.op = "update_author" /\ lastOp.ok /\ ~lastOp.more.nameGiven) =>
              db.Authors[lastOp.id].AuthorName = before.db.Authors[lastOp.id].AuthorName

\* a new title of spaces only was refused for a book that keeps its title
C19_Witness ==
    /\ pc = "returned" /\ lastOp.op = "update_book_title"
    /\ lastOp.more.title = Some(<<>>)
    /\ lastOp.id \in DOMAIN db.Books
    /\ HasText(db.Books[lastOp.id].Title)
    /\ db.Authors /= <<>>

\* C20: the menu is shown, and a menu operation runs, only with the file
\* found, the three tables present and foreign keys on; the steps of the
\* start-up come in order: the connection (foreign keys on) from the start,
\* the verified structure from the connection, the first menu from a
\* test_database_connection that succeeded; verify_database_structure fails
\* exactly when a required table is missing or the store raises; a start-up
\* that fails after connecting closes the connection, and nothing runs after
\* the connection is closed.
C20_StartupOrder ==
    /\ [](pc \in {"menu", "returned"} =>
            fileExists /\ fkOn /\ RequiredTables \subseteq tables)
    /\ [][/\ pc = "start" => pc' \in {"start", "connected", "closed"}
          /\ (pc' = "connected" /\ pc /= "connected") =>
               /\ pc = "start" /\ fkOn'
               /\ lastOp'.op = "create_connection" /\ lastOp'.ok
          /\ (pc' = "verified" /\ pc /= "verified") =>
               /\ pc = "connected" /\ fkOn
               /\ lastOp'.op = "verify_database_structure" /\ lastOp'.ok
          /\ (pc' = "menu" /\ pc \notin {"menu", "returned"}) =>
               /\ pc = "verified" /\ fkOn
               /\ lastOp'.op = "test_database_connection" /\ lastOp'.ok
          /\ (pc = "connected" /\ pc' /= "connected") =>
               /\ lastOp'.op = "verify_database_structure"
               /\ ~lastOp'.ok <=> (RequiredTables \ tables /= {} \/ lastOp'.exc = "Error")
               /\ pc' = IF lastOp'.ok THEN "verified" ELSE "closed"
          /\ (pc = "verified" /\ pc' /= "verified") =>
               /\ lastOp'.op = "test_database_connection"
               /\ pc' = IF lastOp'.ok THEN "menu" ELSE "closed"
          /\ (pc \in {"connected", "verified"} /\ pc' = "closed") =>
               ~lastOp'.ok /\ db' = disk'
          /\ pc = "closed" => UNCHANGED <<pc, db, disk, lastOp>>]_vars

\* the menu as the start-up test that succeeded has just opened it
C20_Witness ==
    /\ pc = "menu"
    /\ lastOp.op = "test_database_connection" /\ lastOp.ok
    /\ fileExists /\ fkOn /\ tables = RequiredTables
    /\ db = disk

\* C21 as stated: when add_book took the 'add a new author' path, the author
\* was created and the book was stored with an AuthorID that is not NULL, that
\* AuthorID is the id of the author this add_book created.
C21_NewAuthorLinked ==
    (/\ pc = "returned" /\ lastOp.op = "add_book" /\ lastOp.ok
     /\ lastOp.more.choice = <<"2">> /\ lastOp.more.nested.ok
     /\ ~IsNone(db.Books[lastOp.newId].AuthorID)) =>
        Val(db.Books[lastOp.newId].AuthorID) = lastOp.more.nested.newId

\* C22: when test_database_connection has succeeded, at start-up or from the
\* menu, the Author, Book and Borrow rows of the connection and the committed
\* rows are those from before the run, and the row it inserted (lastOp.newId)
\* is in neither.
C22_TestLeavesNoTrace ==
    (pc \in {"menu", "returned"} /\ lastOp.op = "test_database_connection" /\ lastOp.ok) =>
        /\ db = before.db
        /\ disk = before.disk
        /\ lastOp.newId \notin DOMAIN db.Authors
        /\ lastOp.newId \notin DOMAIN disk.Authors
        /\ \A a \in DOMAIN db.Authors : db.Authors[a].AuthorName /= TestAuthor

\* the test chosen from the menu has succeeded on a store that holds an
\* author, a book and a borrow
C22_Witness ==
    /\ pc = "returned" /\ lastOp.op = "test_database_connection" /\ lastOp.ok
    /\ db.Authors /= <<>> /\ db.Books /= <<>> /\ db.Borrows /= <<>>
    /\ lastOp.newId = Cardinality(DOMAIN db.Authors) + 1

\* the answer t is the word yes in letters of either case, with nothing but
\* spaces before and after it
IsYes(t) ==
    \E i \in 1..Len(t) :
        /\ i + 2 <= Len(t)
        /\ t[i] \in {"y", "Y"} /\ t[i + 1] \in {"e", "E"} /\ t[i + 2] \in {"s", "S"}
        /\ \A j \in 1..Len(t) : (j < i \/ j > i + 2) => t[j] = Space

\* C23: delete_book and delete_author change a row, and report success, only
\* when the answer to the confirmation is yes once lower-cased and trimmed;
\* with any other answer they report failure (canceled) and leave every
\* Author, Book and Borrow row of the connection and of the committed rows
\* as it was.
C23_DeleteNeedsYes ==
    (pc = "returned" /\ lastOp.op \in {"delete_book", "delete_author"}) =>
        LET answer == lastOp.more.answer
        IN  /\ (lastOp.ok \/ Now /= before) => ~IsNone(answer) /\ IsYes(Val(answer))
            /\ (~IsNone(answer) /\ ~IsYes(Val(answer))) =>
                 ~lastOp.ok /\ lastOp.outcome = "canceled" /\ Now = before

\* the answer y given to delete_author for an author of a book: canceled
C23_Witness ==
    /\ pc = "returned" /\ lastOp.op = "delete_author"
    /\ lastOp.more.answer = Some(<<"y">>)
    /\ lastOp.more.book_count > 0
    /\ lastOp.id \in DOMAIN db.Authors

====
